---- MODULE Spec2Model ----
(***************************************************************************)
(* Jiang-Tadmor central scheme solver (Central2D) instantiated with the    *)
(* shallow water physics (Shallow2D) and a MinMod limiter.                 *)
(*                                                                         *)
(* `real` (float) values are modelled on a binary fixed-point grid: a      *)
(* finite value is an integer count of 1/Scale, every arithmetic           *)
(* operation rounds its exact result to the nearest grid value (ties to    *)
(* even), results beyond MaxMag become +-infinity, and 0/0, inf-inf,       *)
(* 0*inf and sqrt of a negative give NaN, whose comparisons are false.     *)
(* Signed zeros are not distinguished.                                     *)
(***************************************************************************)
EXTENDS Integers, Sequences, FiniteSets, TLC

\* ------------------------------------------------------------------------
\* Bounds of the model
\* ------------------------------------------------------------------------
FracBits == 10      \* fractional bits of the value grid
MaxRuns == 2        \* calls of run per behaviour
MaxWrites == 1      \* writes through the accessor per behaviour

\* ------------------------------------------------------------------------
\* real arithmetic
\* ------------------------------------------------------------------------
Scale == 2 ^ FracBits
MaxMag == 2 ^ 18
PInf == 2 ^ 30
NInf == 0 - PInf
NaN == PInf + 1

Fin(a) == a > NInf /\ a < PInf
IsNaN(a) == a = NaN
Sgn(a) == IF a < 0 THEN 0 - 1 ELSE 1
AbsI(n) == IF n < 0 THEN 0 - n ELSE n

\* n / d for n >= 0, d > 0, rounded to nearest, ties to even
RoundDivNat(n, d) ==
    LET q == n \div d
        r == n % d
    IN  IF 2 * r < d THEN q
        ELSE IF 2 * r > d THEN q + 1
        ELSE IF q % 2 = 0 THEN q ELSE q + 1

RoundDiv(n, d) == Sgn(n) * Sgn(d) * RoundDivNat(AbsI(n), AbsI(d))

\* an exact result brought back into the representable range
Norm(n) == IF n > MaxMag THEN PInf ELSE IF n < 0 - MaxMag THEN NInf ELSE n

Neg(a) == IF IsNaN(a) THEN NaN ELSE 0 - a

Abs(a) == IF IsNaN(a) THEN NaN ELSE AbsI(a)

Add(a, b) ==
    IF Fin(a) /\ Fin(b) THEN Norm(a + b)
    ELSE IF IsNaN(a) \/ IsNaN(b) THEN NaN
    ELSE IF Fin(a) THEN b
    ELSE IF Fin(b) THEN a
    ELSE IF a = b THEN a ELSE NaN

Sub(a, b) == Add(a, Neg(b))

\* a*b/Scale without leaving the machine integers: a = ah*Scale + al
MulFin(a, b) ==
    LET x == AbsI(a)
        y == AbsI(b)
        ah == x \div Scale
        al == x % Scale
    IN  Sgn(a) * Sgn(b) * (ah * y + RoundDivNat(al * y, Scale))

Mul(a, b) ==
    IF Fin(a) /\ Fin(b) THEN Norm(MulFin(a, b))
    ELSE IF IsNaN(a) \/ IsNaN(b) THEN NaN
    ELSE IF a = 0 \/ b = 0 THEN NaN
    ELSE IF Sgn(a) = Sgn(b) THEN PInf ELSE NInf

Div(a, b) ==
    IF Fin(a) /\ Fin(b)
    THEN IF b = 0
         THEN IF a = 0 THEN NaN ELSE IF a > 0 THEN PInf ELSE NInf
         ELSE Norm(RoundDiv(a * Scale, b))
    ELSE IF IsNaN(a) \/ IsNaN(b) THEN NaN
    ELSE IF Fin(a) THEN 0
    ELSE IF Fin(b) THEN (IF Sgn(a) = Sgn(b) THEN PInf ELSE NInf)
    ELSE NaN

\* a < b, a >= b as the hardware compares: false when an operand is NaN
Less(a, b) == ~IsNaN(a) /\ ~IsNaN(b) /\ a < b
GreaterEq(a, b) == ~IsNaN(a) /\ ~IsNaN(b) /\ a >= b
Greater(a, b) == Less(b, a)

\* std::max(a, b) is (a < b) ? b : a ; std::min(a, b) is (b < a) ? b : a
Max(a, b) == IF Less(a, b) THEN b ELSE a
Min(a, b) == IF Less(b, a) THEN b ELSE a

RECURSIVE ISqrtIter(_, _)
ISqrtIter(n, x) ==
    LET y == (x + n \div x) \div 2
    IN  IF y >= x THEN x ELSE ISqrtIter(n, y)

\* floor of the square root of a natural number
ISqrt(n) == IF n = 0 THEN 0 ELSE ISqrtIter(n, n)

Sqrt(a) ==
    IF IsNaN(a) \/ a < 0 THEN NaN
    ELSE IF a = PInf THEN PInf
    ELSE LET n == a * Scale
             s == ISqrt(n)
         IN  IF n - s * s > s THEN s + 1 ELSE s

\* the decimal literal p/q as a real
Lit(p, q) == RoundDiv(p * Scale, q)
\* the integer n converted to real
Real(n) == Norm(n * Scale)

\* ------------------------------------------------------------------------
\* Program constants
\* ------------------------------------------------------------------------
nfield == 3         \* Shallow2D::nfield
nghost == 3         \* Central2D::nghost

\* Shallow2D::g = 9.8
g == Lit(98, 10)
\* the wave speed floor 1.0e-15 of compute_fg_speeds: below the grid's
\* resolution, it is kept as the least positive value
SpeedFloor == Lit(1, Scale)
\* MinMod::theta = 2.0
theta == Real(2)

\* ------------------------------------------------------------------------
\* Inputs
\* ------------------------------------------------------------------------
\* interior cell counts and domain extents handed to the constructor
XCounts == {0 - 7, 0, 1, 2, 3}
YCounts == {0, 1, 3}
Extents == {0, Real(2)}
\* the cfl argument (its default, 0.45)
CflArgs == {Lit(45, 100)}
\* initial conditions seeded through the accessor before the first run
Profiles == {"rest", "dam"}
\* durations handed to run: multiples of 1/8, whose halves are on the grid
\* (halving is exact in binary floating point)
Durations == {Lit(1, 8), Lit(1, 4)}
\* values written through the accessor
PutValues == {0, Lit(3, 2)}

\* ------------------------------------------------------------------------
\* State
\* ------------------------------------------------------------------------
VARIABLES
    w, h,           \* constructor arguments: domain width / height
    nx, ny,         \* number of (non-ghost) cells in x/y
    dx, dy,         \* cell size in x/y
    cfl,            \* allowed CFL number
    ctor,           \* "ok": the constructor returned; "threw": it threw
    u_, f_, g_,     \* solution values, fluxes in x, fluxes in y
    ux_, uy_,       \* x / y differences of u
    fx_, gy_,       \* x differences of f, y differences of g
    v_,             \* solution values at next step
    pc,             \* position of the caller / of run
    tfinal, done, t, dt, io, cxy,   \* argument and locals of run
    report,         \* what solution_check did last: <<"none">>, <<"abort">> or
                    \* <<"printed", volume, momentum x, momentum y, hmin, hmax>>
    oob,            \* an index outside its vector has been used
    nruns, nwrites, \* calls of run / writes through the accessor so far
    lastput,        \* the last write through the accessor <<k, i, j, value>>
    sum0,           \* interior sums of the fields when run was first called
    cell0,          \* the fields of the first interior cell at that time
    uniform0,       \* whether every interior cell then held those values
    hsteps,         \* half-steps executed since then
    ios,            \* the parity flags of the half-steps of the current call
    elapsed,        \* the sum of the dt of the half-steps of the current call
    uwrites,        \* elements of u_ written so far in the current half-step,
                    \* before its copy-back
    vwrites,        \* elements of v_ the predictor wrote in the current half-step
    vreads,         \* elements of v_ read so far in the current half-step,
                    \* before its copy-back
    dwrites,        \* elements of ux_, uy_, fx_, gy_ that limited_derivs wrote
                    \* in the current half-step
    fwrites         \* elements of f_, g_ the flux of the predicted state wrote
                    \* in the current half-step

geom == <<w, h, nx, ny, dx, dy, cfl, ctor>>
arrays == <<u_, f_, g_, ux_, uy_, fx_, gy_, v_>>
locals == <<tfinal, done, t, dt, io, cxy>>
hist == <<nruns, nwrites, lastput, sum0, cell0, uniform0, hsteps, ios, elapsed>>
access == <<uwrites, vwrites, vreads, dwrites, fwrites>>
vars == <<geom, arrays, pc, locals, report, oob, hist, access>>

\* ------------------------------------------------------------------------
\* Grid storage and indexing
\* ------------------------------------------------------------------------
nx_all == nx + 2 * nghost
ny_all == ny + 2 * nghost
\* number of elements of each of the eight vectors
ncells == nfield * nx_all * ny_all

offset(k, ix, iy) == (k * ny_all + iy) * nx_all + ix

\* the % of C++: the remainder has the sign of the dividend
CRem(a, n) == IF a >= 0 THEN a % n ELSE 0 - ((0 - a) % n)

ioffset(k, ix, iy) ==
    offset(k, CRem(ix + nx - nghost, nx) + nghost,
              CRem(iy + ny - nghost, ny) + nghost)

\* the field, column and row of a flat index
FieldOf(p) == p \div (nx_all * ny_all)
XOf(p) == p % nx_all
YOf(p) == (p \div nx_all) % ny_all

Interior(ix, iy) ==
    /\ ix >= nghost /\ ix < nx + nghost
    /\ iy >= nghost /\ iy < ny + nghost

\* operator()(k, i, j): the element the accessor refers to
\* the accessor without the shift past the ghost cells
Elem_unshifted(k, i, j) == offset(k, i, j)

Elem(k, i, j) == offset(k, i + nghost, j + nghost)

Zeros(n) == [p \in 0 .. n - 1 |-> 0]

\* an index is inside the vectors; some index of S is not
InVector(i) == i >= 0 /\ i < ncells
Escapes(S) == \E i \in S : ~InVector(i)

\* ------------------------------------------------------------------------
\* Construction
\* ------------------------------------------------------------------------
\* the initial condition of a cell, one value per field
InitialValue(profile, k, i, j) ==
    IF profile = "dam"
    THEN IF k = 0 THEN (IF i = 0 /\ j = 0 THEN Real(2) ELSE Real(1)) ELSE 0
    ELSE IF k = 0 THEN Real(1) ELSE 0

\* std::vector<real>(n): n value-initialised elements; a negative n, converted to
\* size_t, exceeds max_size and the constructor throws
VectorThrows(cx, cy) == nfield * (cx + 2 * nghost) * (cy + 2 * nghost) < 0

ValidArgs == nx > 0 /\ ny > 0 /\ Greater(w, 0) /\ Greater(h, 0)

Init ==
    /\ w \in Extents /\ h \in Extents
    /\ nx \in XCounts /\ ny \in YCounts
    /\ cfl \in CflArgs
    /\ dx = Div(w, Real(nx))
    /\ dy = Div(h, Real(ny))
    /\ ctor = IF VectorThrows(nx, ny) THEN "threw" ELSE "ok"
    /\ \E profile \in Profiles :
          /\ ~ValidArgs => profile = "rest"
          /\ u_ = IF ctor = "threw" THEN Zeros(0)
                  ELSE IF ~ValidArgs THEN Zeros(ncells)
                  ELSE [p \in 0 .. ncells - 1 |->
                          IF Interior(XOf(p), YOf(p))
                          THEN InitialValue(profile, FieldOf(p),
                                            XOf(p) - nghost, YOf(p) - nghost)
                          ELSE 0]
    /\ LET z == IF ctor = "threw" THEN Zeros(0) ELSE Zeros(ncells)
       IN  /\ f_ = z /\ g_ = z /\ ux_ = z /\ uy_ = z
           /\ fx_ = z /\ gy_ = z /\ v_ = z
    /\ pc = "idle"
    /\ tfinal = 0 /\ done = FALSE /\ t = 0 /\ dt = 0 /\ io = 0
    /\ cxy = <<0, 0>>
    /\ report = <<"none">>
    /\ oob = FALSE
    /\ nruns = 0 /\ nwrites = 0
    /\ lastput = <<0, 0, 0, 0>>
    /\ sum0 = <<0, 0, 0>>
    /\ cell0 = <<0, 0, 0>>
    /\ uniform0 = FALSE
    /\ hsteps = 0
    /\ ios = <<>>
    /\ elapsed = 0
    /\ uwrites = {} /\ vwrites = {} /\ vreads = {}
    /\ dwrites = {} /\ fwrites = {}

\* ------------------------------------------------------------------------
\* Boundary conditions
\* ------------------------------------------------------------------------
\* the assignments u(dst) = uwrap(src) of apply_periodic for field k, in the
\* order the loops make them, each as <<dst, src>>
PeriodicLeftRight(k) ==
    [n \in 1 .. 2 * nghost * ny_all |->
        LET iy == (n - 1) \div (2 * nghost)
            ix == ((n - 1) % (2 * nghost)) \div 2
            cx == IF (n - 1) % 2 = 0 THEN ix ELSE nx + nghost + ix
        IN  <<offset(k, cx, iy), ioffset(k, cx, iy)>>]

PeriodicTopBottom(k) ==
    [n \in 1 .. 2 * nx_all * nghost |->
        LET iy == (n - 1) \div (2 * nx_all)
            ix == ((n - 1) % (2 * nx_all)) \div 2
            cy == IF (n - 1) % 2 = 0 THEN iy ELSE ny + nghost + iy
        IN  <<offset(k, ix, cy), ioffset(k, ix, cy)>>]

PeriodicCopies ==
    PeriodicLeftRight(0) \o PeriodicTopBottom(0) \o
    PeriodicLeftRight(1) \o PeriodicTopBottom(1) \o
    PeriodicLeftRight(2) \o PeriodicTopBottom(2)

\* the copies lo .. hi made one after the other, each reading the array as
\* the earlier ones left it (split in halves to bound the nesting)
RECURSIVE CopyInOrder(_, _, _, _)
CopyInOrder(u, copies, lo, hi) ==
    IF lo > hi THEN u
    ELSE IF lo = hi THEN [u EXCEPT ![copies[lo][1]] = u[copies[lo][2]]]
    ELSE LET mid == (lo + hi) \div 2
             left == CopyInOrder(u, copies, lo, mid)
         IN  IF DOMAIN left = {} THEN left
             ELSE CopyInOrder(left, copies, mid + 1, hi)

\* ghost cells left as they are
apply_periodic_skipped(u) == u

apply_periodic(u) == CopyInOrder(u, PeriodicCopies, 1, Len(PeriodicCopies))

\* the elements apply_periodic writes, and those it reads
PeriodicWrites ==
    LET copies == PeriodicCopies IN {copies[n][1] : n \in DOMAIN copies}
PeriodicReads ==
    LET copies == PeriodicCopies IN {copies[n][2] : n \in DOMAIN copies}

ApplyPeriodic ==
    /\ pc = "periodic"
    /\ u_' = apply_periodic(u_)
    /\ pc' = "speeds"
    /\ uwrites' = uwrites \cup PeriodicWrites
    /\ oob' = (oob \/ Escapes(PeriodicWrites \cup PeriodicReads))
    /\ UNCHANGED <<geom, f_, g_, ux_, uy_, fx_, gy_, v_, locals, report, hist,
                   vwrites, vreads, dwrites, fwrites>>

\* ------------------------------------------------------------------------
\* Shallow water physics
\* ------------------------------------------------------------------------
Half == Lit(1, 2)
inv_h(hi) == Div(Real(1), hi)
Pressure(hi) == Mul(Mul(Mul(Half, g), hi), hi)

flux_fhu(hi, hui, hvi) == Add(Mul(Mul(hui, hui), inv_h(hi)), Pressure(hi))
flux_fhv(hi, hui, hvi) == Mul(Mul(hui, hvi), inv_h(hi))
flux_ghu(hi, hui, hvi) == Mul(Mul(hui, hvi), inv_h(hi))
flux_ghv(hi, hui, hvi) == Add(Mul(Mul(hvi, hvi), inv_h(hi)), Pressure(hi))

\* the elements Shallow2D::flux and Shallow2D::wave_speed use on the ncell
\* cells from base: those of the three fields
FluxCells(base, ncell, field_stride) ==
    {base + i + k * field_stride : i \in 0 .. ncell - 1, k \in 0 .. nfield - 1}

\* Shallow2D::flux on the ncell cells from base, the fields field_stride apart:
\* the arrays FU and GU afterwards, as <<FU, GU>>
flux(FU, GU, U, base, ncell, field_stride) ==
    LET In0(p) == p >= base /\ p < base + ncell
        FieldAt(p) == IF In0(p) THEN 0
                      ELSE IF In0(p - field_stride) THEN 1
                      ELSE IF In0(p - 2 * field_stride) THEN 2
                      ELSE 3
        Cell(p) == p - FieldAt(p) * field_stride
        hi(p) == U[Cell(p)]
        hui(p) == U[Cell(p) + field_stride]
        hvi(p) == U[Cell(p) + 2 * field_stride]
    IN  << [p \in DOMAIN FU |->
              CASE FieldAt(p) = 0 -> hui(p)
                [] FieldAt(p) = 1 -> flux_fhu(hi(p), hui(p), hvi(p))
                [] FieldAt(p) = 2 -> flux_fhv(hi(p), hui(p), hvi(p))
                [] OTHER -> FU[p]],
           [p \in DOMAIN GU |->
              CASE FieldAt(p) = 0 -> hvi(p)
                [] FieldAt(p) = 1 -> flux_ghu(hi(p), hui(p), hvi(p))
                [] FieldAt(p) = 2 -> flux_ghv(hi(p), hui(p), hvi(p))
                [] OTHER -> GU[p]] >>

\* one iteration of the loop of Shallow2D::wave_speed: the running maxima
\* <<cx, cy>> after cell i
wave_speed_cell(c, U, i, field_stride) ==
    LET hi == U[i]
        hui == U[i + field_stride]
        hvi == U[i + 2 * field_stride]
        root_gh == Sqrt(Mul(g, hi))
    IN  <<Max(c[1], Add(Abs(Div(hui, hi)), root_gh)),
          Max(c[2], Add(Abs(Div(hvi, hi)), root_gh))>>

\* the iterations lo .. hi in order (split in halves to bound the nesting)
RECURSIVE wave_speed_range(_, _, _, _, _)
wave_speed_range(c, U, lo, hi, field_stride) ==
    IF lo > hi THEN c
    ELSE IF lo = hi THEN wave_speed_cell(c, U, lo, field_stride)
    ELSE LET mid == (lo + hi) \div 2
             left == wave_speed_range(c, U, lo, mid, field_stride)
         IN  IF left = <<>> THEN left
             ELSE wave_speed_range(left, U, mid + 1, hi, field_stride)

\* Shallow2D::wave_speed
wave_speed(c, U, ncell, field_stride) ==
    wave_speed_range(c, U, 0, ncell - 1, field_stride)

ComputeFgSpeeds ==
    /\ pc = "speeds"
    /\ LET FG == flux(f_, g_, u_, 0, nx_all * ny_all, nx_all * ny_all)
       IN  f_' = FG[1] /\ g_' = FG[2]
    /\ cxy' = wave_speed(<<SpeedFloor, SpeedFloor>>, u_,
                         nx_all * ny_all, nx_all * ny_all)
    /\ pc' = "derivs"
    /\ oob' = (oob \/ Escapes(FluxCells(0, nx_all * ny_all, nx_all * ny_all)))
    /\ UNCHANGED <<geom, u_, ux_, uy_, fx_, gy_, v_, tfinal, done, t, dt, io,
                   report, hist, access>>

\* ------------------------------------------------------------------------
\* MinMod limiter
\* ------------------------------------------------------------------------
copysign_half(a) == IF ~IsNaN(a) /\ a < 0 THEN Neg(Half) ELSE Half

xmin(a, b) ==
    Mul(Add(copysign_half(a), copysign_half(b)), Min(Abs(a), Abs(b)))

limdiff(um, u0, up) ==
    LET du1 == Sub(u0, um)
        du2 == Sub(up, u0)
        duc == Sub(up, um)
    IN  xmin(Mul(theta, xmin(du1, du2)), Div(duc, Real(2)))

\* ------------------------------------------------------------------------
\* Derivatives with limiters
\* ------------------------------------------------------------------------
\* what a read outside a vector may return
JunkValues == {0, Real(1)}

\* the bounds of the loop of limited_derivs
DerivsLo == ny_all
DerivsHi == nfield * (ny_all - 1) * nx_all

Read(a, i, junk) == IF InVector(i) THEN a[i] ELSE junk

\* the indices limited_derivs reads
DerivsReads == UNION {{i - 1, i, i + 1, i - nx_all, i + nx_all} :
                        i \in DerivsLo .. DerivsHi - 1}

\* the indices limited_derivs writes
DerivsWrites == DerivsLo .. DerivsHi - 1

limited_x(a, d, junk) ==
    [i \in DOMAIN d |->
        IF i >= DerivsLo /\ i < DerivsHi
        THEN limdiff(Read(a, i - 1, junk), Read(a, i, junk), Read(a, i + 1, junk))
        ELSE d[i]]

limited_y(a, d, junk) ==
    [i \in DOMAIN d |->
        IF i >= DerivsLo /\ i < DerivsHi
        THEN limdiff(Read(a, i - nx_all, junk), Read(a, i, junk),
                     Read(a, i + nx_all, junk))
        ELSE d[i]]

\* dt chosen again on the odd half-step
after_derivs_always(par) == "choosedt"

\* where run goes after limited_derivs on the half-step of parity par:
\* dt is chosen on the even one only
after_derivs(par) == IF par = 0 THEN "choosedt" ELSE "predictor"

LimitedDerivs ==
    /\ pc = "derivs"
    /\ \E junk \in JunkValues :
          /\ (\A i \in DerivsReads : InVector(i)) => junk = 0
          /\ ux_' = limited_x(u_, ux_, junk)
          /\ fx_' = limited_x(f_, fx_, junk)
          /\ uy_' = limited_y(u_, uy_, junk)
          /\ gy_' = limited_y(g_, gy_, junk)
    /\ oob' = (oob \/ Escapes(DerivsReads \cup DerivsWrites))
    /\ dwrites' = dwrites \cup DerivsWrites
    /\ pc' = after_derivs(io)
    /\ UNCHANGED <<geom, u_, f_, g_, v_, locals, report, hist,
                   uwrites, vwrites, vreads, fwrites>>

\* ------------------------------------------------------------------------
\* Advancing a time step
\* ------------------------------------------------------------------------
dtcdx2(step) == Div(Mul(Half, step), dx)
dtcdy2(step) == Div(Mul(Half, step), dy)

\* a predictor that covers the interior cells only
PredictorCells_interior ==
    {offset(k, ix, iy) : k \in 0 .. nfield - 1, ix \in nghost .. nx + nghost - 1,
                         iy \in nghost .. ny + nghost - 1}

\* the cells of the predictor's loops
PredictorCells ==
    {offset(k, ix, iy) : k \in 0 .. nfield - 1, ix \in 1 .. nx_all - 2,
                         iy \in 1 .. ny_all - 2}

\* Half step predictor
predictor(step) ==
    LET cells == PredictorCells
    IN  [p \in DOMAIN v_ |->
            IF p \in cells
            THEN Sub(Sub(u_[p], Mul(dtcdx2(step), fx_[p])),
                     Mul(dtcdy2(step), gy_[p]))
            ELSE v_[p]]

Predictor ==
    /\ pc = "predictor"
    /\ v_' = predictor(dt)
    /\ pc' = "halfflux"
    /\ vwrites' = vwrites \cup PredictorCells
    /\ oob' = (oob \/ Escapes(PredictorCells))
    /\ UNCHANGED <<geom, u_, f_, g_, ux_, uy_, fx_, gy_, locals, report, hist,
                   uwrites, vreads, dwrites, fwrites>>

\* Flux values of f and g at half step: rows iy .. ny_all-2, one call of
\* Physics::flux per row
RECURSIVE half_step_flux(_, _)
half_step_flux(FG, iy) ==
    IF iy >= ny_all - 1 THEN FG
    ELSE half_step_flux(flux(FG[1], FG[2], v_, offset(0, 1, iy), nx_all - 2,
                             nx_all * ny_all), iy + 1)

\* the elements the calls of Physics::flux in that loop use: read in v_,
\* written in f_ and g_
HalfStepFluxCells ==
    UNION {FluxCells(offset(0, 1, iy), nx_all - 2, nx_all * ny_all) :
             iy \in 1 .. ny_all - 2}

HalfStepFlux ==
    /\ pc = "halfflux"
    /\ LET FG == half_step_flux(<<f_, g_>>, 1)
       IN  f_' = FG[1] /\ g_' = FG[2]
    /\ pc' = "corrector"
    /\ vreads' = vreads \cup HalfStepFluxCells
    /\ fwrites' = fwrites \cup HalfStepFluxCells
    /\ oob' = (oob \/ Escapes(HalfStepFluxCells))
    /\ UNCHANGED <<geom, u_, ux_, uy_, fx_, gy_, v_, locals, report, hist,
                   uwrites, vwrites, dwrites>>

\* the cells the corrector computes on a step of parity par
InWindow(par, ix, iy) ==
    /\ iy >= nghost - par /\ iy < ny + nghost - par
    /\ ix >= nghost - par /\ ix < nx + nghost - par

\* the corrector's value at (m, ix, iy)
corrector_value(step, m, ix, iy) ==
    LET u(a, b) == u_[offset(m, a, b)]
        ux(a, b) == ux_[offset(m, a, b)]
        uy(a, b) == uy_[offset(m, a, b)]
        f(a, b) == f_[offset(m, a, b)]
        gg(a, b) == g_[offset(m, a, b)]
        avg == Add(Add(Add(u(ix, iy), u(ix + 1, iy)), u(ix, iy + 1)),
                   u(ix + 1, iy + 1))
        dux == Sub(Add(Sub(ux(ix + 1, iy), ux(ix, iy)), ux(ix + 1, iy + 1)),
                   ux(ix, iy + 1))
        duy == Sub(Add(Sub(uy(ix, iy + 1), uy(ix, iy)), uy(ix + 1, iy + 1)),
                   uy(ix + 1, iy))
        df == Sub(Add(Sub(f(ix + 1, iy), f(ix, iy)), f(ix + 1, iy + 1)),
                  f(ix, iy + 1))
        dg == Sub(Add(Sub(gg(ix, iy + 1), gg(ix, iy)), gg(ix + 1, iy + 1)),
                  gg(ix + 1, iy))
    IN  Sub(Sub(Sub(Mul(Lit(1, 4), avg),
                    Mul(Lit(1, 16), Add(dux, duy))),
                Mul(dtcdx2(step), df)),
            Mul(dtcdy2(step), dg))

corrector(par, step) ==
    [p \in DOMAIN v_ |->
        IF InWindow(par, XOf(p), YOf(p))
        THEN corrector_value(step, FieldOf(p), XOf(p), YOf(p))
        ELSE v_[p]]

\* the elements the corrector writes in v_ on a step of parity par, and
\* those of its 2 x 2 stencils, read in u_, ux_, uy_, f_ and g_
CorrectorWrites(par) ==
    {p \in 0 .. ncells - 1 : InWindow(par, XOf(p), YOf(p))}
CorrectorReads(par) ==
    {offset(FieldOf(p), XOf(p) + a, YOf(p) + b) :
        p \in CorrectorWrites(par), a \in 0 .. 1, b \in 0 .. 1}

Corrector ==
    /\ pc = "corrector"
    /\ v_' = corrector(io, dt)
    /\ pc' = "copyback"
    /\ oob' = (oob \/ Escapes(CorrectorWrites(io) \cup CorrectorReads(io)))
    /\ UNCHANGED <<geom, u_, f_, g_, ux_, uy_, fx_, gy_, locals, report, hist,
                   access>>

\* a copy without the shift of the staggered grid
copy_back_unshifted(par) ==
    [p \in DOMAIN u_ |->
        LET k == FieldOf(p)
            j == p - offset(k, nghost, nghost)
        IN  IF j >= 0 /\ j < ny * nx_all
            THEN v_[offset(k, nghost, nghost) + j]
            ELSE u_[p]]

\* Copy from v storage back to main grid: per field, ny * nx_all elements
\* from &v(k, nghost-par, nghost-par) to &u(k, nghost, nghost)
copy_back(par) ==
    [p \in DOMAIN u_ |->
        LET k == FieldOf(p)
            j == p - offset(k, nghost, nghost)
        IN  IF j >= 0 /\ j < ny * nx_all
            THEN v_[offset(k, nghost - par, nghost - par) + j]
            ELSE u_[p]]

\* the elements the memcpy calls read in v_ and write in u_
CopyBackReads(par) ==
    {offset(k, nghost - par, nghost - par) + j :
        k \in 0 .. nfield - 1, j \in 0 .. ny * nx_all - 1}
CopyBackWrites ==
    {offset(k, nghost, nghost) + j :
        k \in 0 .. nfield - 1, j \in 0 .. ny * nx_all - 1}

\* the loop left as soon as done is set, after the even half-step
loop_control_single(par, fin) == IF fin THEN "idle" ELSE "periodic"

\* the while loop not left when done is set: run hangs
loop_control_hung(par, fin) == IF par = 1 /\ fin THEN "hung" ELSE "periodic"

\* where run goes after the half-step of parity par: the for loop takes the
\* odd half-step after the even one, the while loop ends after the odd one
\* once done is set
loop_control(par, fin) == IF par = 1 /\ fin THEN "idle" ELSE "periodic"

\* the end of compute_step, then t += dt and the control of the two loops
CopyBack ==
    /\ pc = "copyback"
    /\ u_' = copy_back(io)
    /\ t' = Add(t, dt)
    /\ io' = 1 - io
    /\ pc' = loop_control(io, done)
    /\ hsteps' = hsteps + 1
    /\ ios' = Append(ios, io)
    /\ elapsed' = elapsed + dt
    /\ oob' = (oob \/ Escapes(CopyBackReads(io) \cup CopyBackWrites))
    /\ uwrites' = {} /\ vwrites' = {} /\ vreads' = {}
    /\ dwrites' = {} /\ fwrites' = {}
    /\ UNCHANGED <<geom, f_, g_, ux_, uy_, fx_, gy_, v_, tfinal, done, dt, cxy,
                   report, nruns, nwrites, lastput, sum0, cell0, uniform0>>

\* ------------------------------------------------------------------------
\* Advance time
\* ------------------------------------------------------------------------
\* the sum of field k over the interior cells
InteriorCells(k) ==
    {p \in DOMAIN u_ : FieldOf(p) = k /\ Interior(XOf(p), YOf(p))}

RECURSIVE SumOver(_, _)
SumOver(a, S) ==
    IF S = {} THEN 0
    ELSE LET p == CHOOSE q \in S : TRUE IN a[p] + SumOver(a, S \ {p})

InteriorSum(k) == SumOver(u_, InteriorCells(k))

FirstCell == <<u_[offset(0, nghost, nghost)], u_[offset(1, nghost, nghost)],
               u_[offset(2, nghost, nghost)]>>
Uniform == \A k \in 0 .. nfield - 1 : \A p \in InteriorCells(k) :
               u_[p] = FirstCell[k + 1]

AllPositive == \A p \in InteriorCells(0) : Greater(u_[p], 0)

\* the caller calls run(d); it does so on a validly constructed solver whose
\* heights are positive, with the initial conditions the construction seeded
StartRun(d) ==
    /\ pc = "idle"
    /\ ctor = "ok" /\ ValidArgs
    /\ nruns < MaxRuns /\ nwrites = 0
    /\ AllPositive
    /\ tfinal' = d
    /\ done' = FALSE
    /\ t' = 0
    /\ io' = 0
    /\ pc' = "periodic"
    /\ nruns' = nruns + 1
    /\ sum0' = IF nruns = 0
               THEN <<InteriorSum(0), InteriorSum(1), InteriorSum(2)>>
               ELSE sum0
    /\ cell0' = IF nruns = 0 THEN FirstCell ELSE cell0
    /\ uniform0' = IF nruns = 0 THEN Uniform ELSE uniform0
    /\ ios' = <<>>
    /\ elapsed' = 0
    /\ report' = <<"none">>
    /\ UNCHANGED <<geom, arrays, dt, cxy, oob, nwrites, lastput, hsteps,
                   access>>

\* the step size taken from the slower of the two directions
cfl_dt_slowest == Div(cfl, Min(Div(cxy[1], dx), Div(cxy[2], dy)))

\* the step size for the pair of half-steps, chosen on the even one
cfl_dt == Div(cfl, Max(Div(cxy[1], dx), Div(cxy[2], dy)))
Lands(step) == GreaterEq(Add(t, Mul(Real(2), step)), tfinal)
\* the remaining time taken whole by each of the two half-steps
landing_dt_whole == Sub(tfinal, t)

landing_dt == Div(Sub(tfinal, t), Real(2))

ChooseDt ==
    /\ pc = "choosedt"
    /\ dt' = IF Lands(cfl_dt) THEN landing_dt ELSE cfl_dt
    /\ done' = IF Lands(cfl_dt) THEN TRUE ELSE done
    /\ pc' = "predictor"
    /\ UNCHANGED <<geom, arrays, tfinal, t, io, cxy, report, oob, hist,
                   access>>

\* ------------------------------------------------------------------------
\* Diagnostics
\* ------------------------------------------------------------------------
\* a scan that starts in the ghost cells
CheckOrder_padded ==
    [n \in 1 .. nx * ny |-> <<(n - 1) % nx, (n - 1) \div nx>>]

\* the interior cells in the order solution_check visits them, as <<i, j>>
CheckOrder ==
    [n \in 1 .. nx * ny |->
        <<nghost + ((n - 1) % nx), nghost + ((n - 1) \div nx)>>]

\* the loop of solution_check from its n-th cell on; acc is
\* <<h_sum, hu_sum, hv_sum, hmin, hmax>>; <<>> when the assertion fails
RECURSIVE check_loop(_, _)
check_loop(acc, n) ==
    IF n > Len(CheckOrder) THEN acc
    ELSE LET i == CheckOrder[n][1]
             j == CheckOrder[n][2]
             hh == u_[offset(0, i, j)]
         IN  IF ~Greater(hh, 0) THEN <<>>
             ELSE check_loop(<<Add(acc[1], hh),
                               Add(acc[2], u_[offset(1, i, j)]),
                               Add(acc[3], u_[offset(2, i, j)]),
                               Min(hh, acc[4]),
                               Max(hh, acc[5])>>, n + 1)

solution_check ==
    LET h0 == u_[offset(0, nghost, nghost)]
        acc == check_loop(<<0, 0, 0, h0, h0>>, 1)
        cell_area == Mul(dx, dy)
    IN  IF acc = <<>> THEN <<"abort">>
        ELSE <<"printed", Mul(acc[1], cell_area), Mul(acc[2], cell_area),
               Mul(acc[3], cell_area), acc[4], acc[5]>>

SolutionCheck ==
    /\ pc = "idle"
    /\ ctor = "ok" /\ ValidArgs
    /\ report = <<"none">>
    /\ report' = solution_check
    /\ pc' = IF solution_check = <<"abort">> THEN "aborted" ELSE "idle"
    /\ UNCHANGED <<geom, arrays, locals, oob, hist, access>>

\* ------------------------------------------------------------------------
\* Read / write elements of simulation state
\* ------------------------------------------------------------------------
put(u, k, i, j, val) == [u EXCEPT ![Elem(k, i, j)] = val]
get(u, k, i, j) == u[Elem(k, i, j)]

\* the caller writes val at (k, i, j); it writes while it sets the solver up,
\* before it calls run
Put(k, i, j, val) ==
    /\ pc = "idle"
    /\ ctor = "ok" /\ ValidArgs
    /\ nruns = 0 /\ nwrites < MaxWrites
    /\ u_' = put(u_, k, i, j, val)
    /\ lastput' = <<k, i, j, val>>
    /\ nwrites' = nwrites + 1
    /\ report' = <<"none">>
    /\ UNCHANGED <<geom, f_, g_, ux_, uy_, fx_, gy_, v_, pc, locals, oob,
                   nruns, sum0, cell0, uniform0, hsteps, ios, elapsed, access>>

\* ------------------------------------------------------------------------
\* Specification
\* ------------------------------------------------------------------------
Next ==
    \/ \E d \in Durations : StartRun(d)
    \/ ApplyPeriodic
    \/ ComputeFgSpeeds
    \/ LimitedDerivs
    \/ ChooseDt
    \/ Predictor
    \/ HalfStepFlux
    \/ Corrector
    \/ CopyBack
    \/ SolutionCheck
    \/ \E k \in 0 .. nfield - 1, i \in 0 .. nx - 1, j \in 0 .. ny - 1,
          val \in PutValues : Put(k, i, j, val)

Spec == Init /\ [][Next]_vars

\* the positions of run's loop; the step at each of them is guarded by the
\* position alone and moves to another position
RunLabels == {"periodic", "speeds", "derivs", "choosedt", "predictor",
              "halfflux", "corrector", "copyback"}
Advance == pc \in RunLabels /\ pc' \in RunLabels \cup {"idle"} /\ pc' # pc

\* run's loop is sequential code: it does not stop between two of its steps
FairSpec == Spec /\ WF_pc(Advance)

\* ------------------------------------------------------------------------
\* Properties
\* ------------------------------------------------------------------------
\* run is between two macro-steps, or has returned
BetweenMacroSteps == nruns > 0 /\ io = 0 /\ pc \in {"idle", "periodic"}
Returned == nruns > 0 /\ pc = "idle"

\* the corrector rounds four products per cell, each by at most half a grid
\* step: the rounding a half-step can add to an interior sum
HalfStepRounding == 2 * nx * ny

\* C1: between macro-steps the interior sum of each conserved field equals
\* its sum when run was first called, up to the rounding of the half-steps
\* taken since.
Conservation ==
    BetweenMacroSteps =>
        \A k \in 0 .. nfield - 1 :
            AbsI(InteriorSum(k) - sum0[k + 1]) <= HalfStepRounding * hsteps

\* C2: the half-steps of a call of run have the parity flags 0, 1, 0, 1, ...
\* and run returns only after an even number of them.
GridParity ==
    /\ \A n \in 1 .. Len(ios) : ios[n] = (n - 1) % 2
    /\ Returned => Len(ios) > 0 /\ Len(ios) % 2 = 0

\* run has returned from a call that took more than one macro-step, after an
\* earlier call
GridParityWitness == Returned /\ nruns = 2 /\ Len(ios) >= 4

\* the canonical interior coordinate of a padded coordinate c on an axis of
\* n interior cells
Canonical(c, n) == ((c - nghost + n) % n) + nghost

\* C3: after apply_periodic every ghost cell holds the value of its wrapped
\* canonical interior cell.
PeriodicExact ==
    pc = "speeds" =>
        \A p \in DOMAIN u_ :
            ~Interior(XOf(p), YOf(p)) =>
                u_[p] = u_[offset(FieldOf(p), Canonical(XOf(p), nx),
                                  Canonical(YOf(p), ny))]

\* C4: the dt of the even half-step does not exceed cfl / max(cx/dx, cy/dy),
\* for the wave speeds measured in that half-step, by more than the half
\* grid step the division rounds by.
CflRespected ==
    (pc = "predictor" /\ io = 0) =>
        LET m == Max(Div(cxy[1], dx), Div(cxy[2], dy))
        IN  2 * m * dt <= 2 * cfl * Scale + m

\* the even half-step of a final macro-step whose dt was shrunk below the
\* CFL step to land on the target
CflRespectedWitness ==
    /\ pc = "predictor" /\ io = 0
    /\ done /\ dt > 0 /\ dt < cfl_dt
    /\ Greater(cxy[1], SpeedFloor)

\* C5: when run(d) returns the dt of its half-steps sum to d, its local time
\* has landed on d, and the two half-steps of its last macro-step took the
\* same dt.
ExactLanding ==
    Returned => /\ elapsed = tfinal
                /\ t = tfinal
                /\ dt = Div(Sub(tfinal, Sub(t, Mul(Real(2), dt))), Real(2))

\* a second call of run has returned after more than one macro-step
ExactLandingWitness == Returned /\ nruns = 2 /\ Len(ios) >= 4 /\ tfinal > 0

\* the valid application coordinates
Coordinates == (0 .. nfield - 1) \X (0 .. nx - 1) \X (0 .. ny - 1)

\* C6: a write through the accessor at valid coordinates lands on the element
\* (k*Ny_pad + y+G)*Nx_pad + x+G, inside the vector; reading the same
\* coordinates returns the written value and reading any other valid
\* coordinates returns what was there before.
AccessorRoundTrip ==
    [][nwrites' = nwrites + 1 =>
        LET k == lastput'[1]
            i == lastput'[2]
            j == lastput'[3]
        IN  /\ Elem(k, i, j) = (k * (ny + 2 * nghost) + j + nghost)
                                    * (nx + 2 * nghost) + i + nghost
            /\ Elem(k, i, j) \in DOMAIN u_
            /\ get(u_', k, i, j) = lastput'[4]
            /\ \A c \in Coordinates :
                  c # <<k, i, j>> =>
                      /\ Elem(c[1], c[2], c[3]) # Elem(k, i, j)
                      /\ get(u_', c[1], c[2], c[3]) = get(u_, c[1], c[2], c[3])
      ]_vars

\* a value has been written over a different one
AccessorRoundTripWitness ==
    /\ nwrites > 0
    /\ get(u_, lastput[1], lastput[2], lastput[3]) = lastput[4]
    /\ lastput[4] = Lit(3, 2)
    /\ lastput[1] = 2 /\ lastput[2] = nx - 1 /\ lastput[3] = ny - 1
    /\ nx > 1 /\ ny > 1

\* C7: constructing with a non-positive cell count or domain extent fails.
ConstructionError == ~ValidArgs => ctor = "threw"

\* some interior height is not positive
SomeNonPositive == \E p \in InteriorCells(0) : u_[p] <= 0

\* C8: solution_check ends in the failed assertion exactly when some interior
\* height is not positive, whatever the ghost cells hold; otherwise it prints
\* the interior sums of the three fields scaled by dx*dy and the least and
\* greatest interior height.
DiagnosticCheck ==
    report # <<"none">> =>
        /\ (report = <<"abort">>) <=> SomeNonPositive
        /\ report # <<"abort">> =>
              /\ report[1] = "printed"
              /\ \A k \in 0 .. nfield - 1 :
                    report[k + 2] = Mul(InteriorSum(k), Mul(dx, dy))
              /\ \A p \in InteriorCells(0) :
                    report[5] <= u_[p] /\ u_[p] <= report[6]
              /\ \E p \in InteriorCells(0) : report[5] = u_[p]
              /\ \E p \in InteriorCells(0) : report[6] = u_[p]

\* solution_check has printed its report for a state whose heights differ,
\* while ghost cells hold a height that is not positive
DiagnosticCheckWitness ==
    /\ report # <<"none">> /\ report # <<"abort">>
    /\ report[5] < report[6]
    /\ \E p \in DOMAIN u_ : FieldOf(p) = 0 /\ ~Interior(XOf(p), YOf(p))
                              /\ u_[p] <= 0

\* solution_check has aborted
DiagnosticAbortReached == report = <<"abort">> /\ pc = "aborted"

\* C9: a state that was uniform when run was first called is unchanged in
\* every interior cell of every field between macro-steps.
LakeAtRest ==
    (BetweenMacroSteps /\ uniform0) =>
        \A k \in 0 .. nfield - 1 : \A p \in InteriorCells(k) :
            u_[p] = cell0[k + 1]

\* a second call of run has returned on a lake at rest on a grid of more than
\* one cell
LakeAtRestWitness ==
    /\ Returned /\ uniform0 /\ nruns = 2 /\ Len(ios) >= 4
    /\ nx * ny > 1 /\ cell0 = <<Real(1), 0, 0>>

\* C10: every call of run returns.
Termination == (pc \notin {"idle", "aborted"}) ~> (pc = "idle")

\* run is in its second macro-step or a later one
TerminationWitness == pc = "choosedt" /\ Len(ios) >= 2 /\ ~done

\* the padded cells of every field other than the one-cell outer margin
DerivsRegion ==
    {offset(k, ix, iy) : k \in 0 .. nfield - 1, ix \in 1 .. nx_all - 2,
                         iy \in 1 .. ny_all - 2}

\* C11: once limited_derivs has run in a half-step it has computed ux, uy,
\* fx and gy at every cell of every field other than the one-cell outer
\* margin.
DerivsCoverage ==
    pc \in {"choosedt", "predictor"} => DerivsRegion \subseteq dwrites

\* the positions of a half-step between its boundary application and its
\* copy-back
MidStep == {"speeds", "derivs", "choosedt", "predictor", "halfflux",
            "corrector"}

\* C12 as stated: before the copy-back of a half-step no element of u_ has
\* been written and no element of v_ has been read.
BufferDisciplineStrict ==
    pc \in RunLabels => (uwrites = {} /\ vreads = {})

\* C12: in a half-step apply_periodic writes ghost cells of u_ only and
\* leaves the interior cells as they are, u_ is not written from then until
\* the copy-back, and v_ is read before the copy-back only by the flux
\* re-evaluation, at elements the predictor wrote in that half-step.
BufferDiscipline ==
    [][/\ pc = "periodic" =>
            \A p \in DOMAIN u_ :
                Interior(XOf(p), YOf(p)) => u_'[p] = u_[p] /\ p \notin uwrites'
       /\ pc \in MidStep => (u_' = u_ /\ uwrites' = uwrites)
       /\ pc \in MidStep \ {"halfflux"} => vreads' = vreads
       /\ vreads' \subseteq vwrites'
      ]_vars

\* the corrector is about to run on a state that is not uniform: ghost cells
\* of u_ have been written and predicted values have been read from v_
BufferDisciplineWitness ==
    /\ pc = "corrector" /\ io = 1 /\ ~Uniform
    /\ uwrites # {} /\ vreads # {} /\ vreads \subseteq vwrites

\* C13: the copy-back of a half-step of parity io leaves in every interior
\* cell (x, y) of every field the value of v at (x - io, y - io), a cell of
\* that half-step's corrector window holding the corrector's result.
ShiftedCopyBack ==
    [][pc = "copyback" =>
          \A k \in 0 .. nfield - 1 :
             \A x \in nghost .. nx + nghost - 1 :
                \A y \in nghost .. ny + nghost - 1 :
                   /\ u_'[offset(k, x, y)] = v_[offset(k, x - io, y - io)]
                   /\ InWindow(io, x - io, y - io)
                   /\ v_[offset(k, x - io, y - io)]
                         = corrector_value(dt, k, x - io, y - io)
      ]_vars

\* an odd half-step has ended on a state that is not uniform, with u holding
\* the shifted values of v
ShiftedCopyBackWitness ==
    /\ pc \in {"periodic", "idle"} /\ Len(ios) >= 2 /\ ios[Len(ios)] = 1
    /\ ~Uniform
    /\ u_[offset(0, nghost, nghost)] = v_[offset(0, nghost - 1, nghost - 1)]
    /\ u_[offset(0, nghost, nghost)] # v_[offset(0, nghost, nghost)]

\* C14: dt changes only where it is chosen on the even half-step, to the
\* CFL step of the wave speeds just measured or to the landing step; the
\* odd half-step runs on that dt whatever wave speeds it measures.
StepSizeFixed ==
    [][/\ dt' # dt => /\ pc = "choosedt" /\ io = 0
                       /\ dt' \in {cfl_dt, landing_dt}
       /\ (pc \in RunLabels /\ io = 1) => dt' = dt
      ]_vars

\* the odd half-step of a macro-step that does not land has measured wave
\* speeds that would give another dt
StepSizeFixedWitness ==
    /\ pc = "predictor" /\ io = 1 /\ ~done
    /\ dt > 0 /\ cfl_dt # dt

\* C15: no routine of a half-step uses an index outside the vectors.
MemorySafe == ~oob

\* C16: the fx, gy the predictor is about to read and the ux, uy the
\* corrector is about to read were written by limited_derivs in this
\* half-step, and the f, g the corrector is about to read were written by
\* the flux of the predicted state in this half-step.
NoStaleInputs ==
    /\ pc = "predictor" => PredictorCells \subseteq dwrites
    /\ pc = "corrector" => /\ CorrectorReads(io) \subseteq dwrites
                           /\ CorrectorReads(io) \subseteq fwrites

====
